---- MODULE Spec2Model ----
(***************************************************************************)
(* Model of diff_rast/rasterize.py: the autograd Function `rasterize`      *)
(* (forward / backward) that drives the native rasterizer cuda_lib.        *)
(*                                                                         *)
(* Python values are records of one uniform shape so that any two values   *)
(* can be compared (a tensor with an int, a bound method with an int, ...).*)
(* Floating point numbers are exact rationals [num, den] in lowest terms.  *)
(***************************************************************************)
EXTENDS Integers, Sequences, FiniteSets, TLC

\* ------------------------------------------------------------------ bounds
MaxN == 2
NumCtx == 2

\* --------------------------------------------------------- program constants
BLOCK_X == 16
BLOCK_Y == 16
DefaultChannels == 3

\* ------------------------------------------------------------ Python values
RECURSIVE GCD(_, _)
GCD(a, b) == IF b = 0 THEN a ELSE GCD(b, a % b)

Rat(n, d) == LET g == GCD(n, d) IN [num |-> n \div g, den |-> d \div g]

PyVal(kind, shape, dtype, device, data, tag, id) ==
    [kind |-> kind, shape |-> shape, dtype |-> dtype, device |-> device,
     data |-> data, tag |-> tag, id |-> id]

PyNone == PyVal("None", <<>>, "", "", <<>>, "", 0)
PyInt(v) == PyVal("int", <<>>, "", "", <<Rat(v, 1)>>, "", 0)
PyFloat(n, d) == PyVal("float", <<>>, "", "", <<Rat(n, d)>>, "", 0)
BoundMethod(name) == PyVal("method", <<>>, "", "", <<>>, name, 0)
Tensor(shape, dtype, device, data, tag, id) ==
    PyVal("tensor", shape, dtype, device, data, tag, id)

\* float(x), int(x) on a Python number: the value is kept, the type changes.
ToPyFloat(x) == [x EXCEPT !.kind = "float"]
ToPyInt(x) == [x EXCEPT !.kind = "int"]

\* getattr(input, "dim"): the bound method itself, not the number dim() returns.
GetAttrDim(t) == BoundMethod("dim")

\* Python's != on two values.
PyNe(a, b) == a /= b

\* What a tensor holds, whatever device it lives on.
Content(t) == [t EXCEPT !.device = ""]

\* x.contiguous(): the same values (memory layout is not part of the model).
Contiguous(t) == t
\* x.cuda(): the same values on the GPU.
Cuda(t) == [t EXCEPT !.device = "cuda"]

\* x.float(): element type float32, values kept.
TensorFloat(t) == [t EXCEPT !.dtype = "float32"]
\* x / k, elementwise.
TensorDiv(t, k) ==
    [t EXCEPT !.data = [i \in 1..Len(t.data) |->
                          Rat(t.data[i].num, t.data[i].den * k)]]

\* x.unsqueeze(0)
Unsqueeze0(t) == [t EXCEPT !.shape = <<1>> \o t.shape]

\* x.squeeze(-1): drops the last dimension when it is 1.
SqueezeLast(t) ==
    IF Len(t.shape) > 0 /\ t.shape[Len(t.shape)] = 1
    THEN [t EXCEPT !.shape = SubSeq(t.shape, 1, Len(t.shape) - 1)]
    ELSE t

\* ------------------------------------------------------------------- errors
NoErr == [kind |-> "", stage |-> ""]
Err(kind, stage) == [kind |-> kind, stage |-> stage]

\* ------------------------------------------------------------- torch pieces
Ok(v) == [err |-> NoErr, val |-> v]
Fail(e, v) == [err |-> e, val |-> v]

HomogeneousRow == <<Rat(0, 1), Rat(0, 1), Rat(0, 1), Rat(1, 1)>>

\* torch.Tensor([0, 0, 0, 1], device=dev): the legacy constructor builds a
\* float32 CPU tensor and raises a RuntimeError for any other device.
LegacyTensor(values, dev, stage) ==
    IF dev /= "cpu"
    THEN Fail(Err("RuntimeError", stage), PyNone)
    ELSE Ok(Tensor(<<Len(values)>>, "float32", "cpu", values, "", 0))

\* torch.cat([x, y], dim=0): both on one device, same trailing dimensions.
Cat0(x, y, stage) ==
    IF x.device /= y.device \/ Len(x.shape) = 0 \/ Len(x.shape) /= Len(y.shape)
       \/ Tail(x.shape) /= Tail(y.shape)
    THEN Fail(Err("RuntimeError", stage), x)
    ELSE Ok([x EXCEPT !.shape = <<x.shape[1] + y.shape[1]>> \o Tail(x.shape),
                      !.data = x.data \o y.data,
                      !.dtype = "float32"])

\* Variant: the appended row is all zeros.
PadMatrixBadRow(m, dev, stage) ==
    IF m.shape = <<3, 4>>
    THEN Ok([m EXCEPT !.shape = <<4, 4>>,
                      !.data = m.data \o <<Rat(0, 1), Rat(0, 1), Rat(0, 1), Rat(0, 1)>>])
    ELSE Ok(m)

\* A 3x4 matrix gets the row [0, 0, 0, 1] appended; any other is left alone.
PadMatrix(m, dev, stage) ==
    IF m.shape = <<3, 4>>
    THEN LET row == LegacyTensor(HomogeneousRow, dev, stage)
         IN IF row.err /= NoErr THEN Fail(row.err, m)
            ELSE Cat0(m, Unsqueeze0(row.val), stage)
    ELSE Ok(m)

\* Variant: the shape assert is dropped.
AssertMatrixShapeOff(m) == TRUE

\* assert m.shape == (4, 4)
AssertMatrixShape(m) == m.shape = <<4, 4>>

\* Variant: the divisor is 256.
NormalizeColors256(colors) ==
    IF colors.dtype = "uint8" THEN TensorDiv(TensorFloat(colors), 256) ELSE colors

\* if colors.dtype == torch.uint8: colors = colors.float() / 255
NormalizeColors(colors) ==
    IF colors.dtype = "uint8" THEN TensorDiv(TensorFloat(colors), 255) ELSE colors

\* One pass of the validation loop: the batch-size assert, whose message names
\* the module-level `means` (defined only when the file runs as a script), and
\* the dimension assert, which compares the bound method `dim` with 2.
CheckItem(input, means3d, global_means) ==
    IF Len(input.shape) = 0 \/ Len(means3d.shape) = 0
    THEN Err("IndexError", "batch_size")
    ELSE IF input.shape[1] /= means3d.shape[1]
    THEN IF global_means THEN Err("AssertionError", "batch_size")
         ELSE Err("NameError", "batch_size")
    ELSE IF ~PyNe(GetAttrDim(input), PyInt(2))
    THEN Err("AssertionError", "ndim")
    ELSE NoErr

RECURSIVE CheckItems(_, _, _)
CheckItems(items, means3d, global_means) ==
    IF items = <<>> THEN NoErr
    ELSE LET e == CheckItem(Head(items), means3d, global_means)
         IN IF e /= NoErr THEN e
            ELSE CheckItems(Tail(items), means3d, global_means)

\* ---------------------------------------------------------------- the core
IntOf(x) == x.data[1].num
CeilDiv(a, b) == (a + b - 1) \div b

\* cuda_lib.rasterize_forward: the native forward pass. Its results are fresh
\* tensors (id k) of the shapes the engine interface gives.
rasterize_forward(a, k) ==
    LET N == a[1].shape[1]
        H == IntOf(a[9])
        W == IntOf(a[10])
        C == IntOf(a[13])
        T == CeilDiv(W, BLOCK_X) * CeilDiv(H, BLOCK_Y)
        Out(shape, dtype, tag) == Tensor(shape, dtype, "cuda", <<>>, tag, k)
    IN << PyInt(N),
          Out(<<H, W, C>>, "float32", "out_img"),
          Out(<<N>>, "int32", "out_radii"),
          Out(<<H, W>>, "float32", "final_Ts"),
          Out(<<H, W>>, "int32", "final_idx"),
          Out(<<N>>, "int32", "gaussian_ids_sorted"),
          Out(<<T, 2>>, "int32", "tile_bins"),
          Out(<<N, 2>>, "float32", "xy"),
          Out(<<N, 3>>, "float32", "conics") >>

\* cuda_lib.rasterize_backward: d_colors[N, C] and d_opacity[N, 1].
rasterize_backward(a, k) ==
    LET N == a[1].shape[1]
    IN << Tensor(a[2].shape, "float32", "cuda", <<>>, "v_colors", k),
          Tensor(<<N, 1>>, "float32", "cuda", <<>>, "v_opacity", k) >>

\* ------------------------------------------------------------------- state
VARIABLES
    main,      \* whether the file runs as a script (module-level `means` exists)
    args,      \* per ctx: the arguments rasterize.apply was given
    ctx,       \* per ctx: its attributes and saved tensors
    coreFwd,   \* per ctx: the arguments handed to cuda_lib.rasterize_forward
    coreRet,   \* per ctx: what cuda_lib.rasterize_forward returned
    fwdOut,    \* per ctx: what forward returned
    fwdErr,    \* per ctx: the exception forward raised
    gradIn,    \* per ctx: the gradients backward was given
    coreBwd,   \* per ctx: the arguments handed to cuda_lib.rasterize_backward
    bwdRet,    \* per ctx: what cuda_lib.rasterize_backward returned
    bwdOut,    \* per ctx: what backward returned
    serial     \* number of native calls made so far

wrapVars == <<main, args, ctx, coreFwd, coreRet, fwdOut, fwdErr, gradIn, coreBwd,
              bwdRet, bwdOut, serial>>

Ctxs == 1..NumCtx

FreshCtx ==
    [num_rendered |-> PyNone, glob_scale |-> PyNone, view_matrix |-> PyNone,
     proj_matrix |-> PyNone, img_width |-> PyNone, img_height |-> PyNone,
     fx |-> PyNone, fy |-> PyNone, channels |-> PyNone, saved_tensors |-> <<>>]

\* The outcome of one forward call on arguments a, as its k-th native call.
Raised(e) == [err |-> e, core |-> <<>>, ret |-> <<>>, ctx |-> FreshCtx, out |-> <<>>]

ForwardRun(a, global_means, k) ==
    LET means3d == a[1]
        scales == a[2]
        glob_scale == a[3]
        rotations_quat == a[4]
        colors == a[5]
        opacity == a[6]
        view_matrix == a[7]
        proj_matrix == a[8]
        img_height == a[9]
        img_width == a[10]
        fx == a[11]
        fy == a[12]
        channels == IF Len(a) >= 13 THEN a[13] ELSE PyInt(DefaultChannels)
        e1 == CheckItems(<<means3d, scales, rotations_quat, colors, opacity>>,
                         means3d, global_means)
        pp == PadMatrix(proj_matrix, proj_matrix.device, "pad_proj")
        pv == PadMatrix(view_matrix, pp.val.device, "pad_view")
        colors2 == NormalizeColors(colors)
        call == << Cuda(Contiguous(means3d)), Cuda(Contiguous(scales)),
                   ToPyFloat(glob_scale), Cuda(Contiguous(rotations_quat)),
                   Cuda(Contiguous(colors2)), Cuda(Contiguous(opacity)),
                   Cuda(Contiguous(pv.val)), Cuda(Contiguous(pp.val)),
                   img_height, img_width, ToPyFloat(fx), ToPyFloat(fy),
                   ToPyInt(channels) >>
        r == rasterize_forward(call, k)
    IN IF e1 /= NoErr THEN Raised(e1)
       ELSE IF pp.err /= NoErr THEN Raised(pp.err)
       ELSE IF pv.err /= NoErr THEN Raised(pv.err)
       ELSE IF ~AssertMatrixShape(pp.val) THEN Raised(Err("AssertionError", "proj_shape"))
       ELSE IF ~AssertMatrixShape(pv.val) THEN Raised(Err("AssertionError", "view_shape"))
       ELSE [err |-> NoErr,
             core |-> <<call>>,
             ret |-> <<r>>,
             ctx |-> [num_rendered |-> r[1], glob_scale |-> glob_scale,
                      view_matrix |-> pv.val, proj_matrix |-> pp.val,
                      img_width |-> img_width, img_height |-> img_height,
                      fx |-> fx, fy |-> fy, channels |-> channels,
                      saved_tensors |-> <<colors2, means3d, opacity, scales,
                                          rotations_quat, r[3], r[4], r[5],
                                          r[6], r[7], r[8], r[9]>>],
             out |-> << <<r[1], r[2], r[3]>> >>]


\* The parameters of forward after ctx, in order.
ForwardParams ==
    <<"means3d", "scales", "glob_scale", "rotations_quat", "colors", "opacity",
      "view_matrix", "proj_matrix", "img_height", "img_width", "fx", "fy",
      "channels">>

\* Variant: backward reads whichever ctx holds saved state, as a shared cache would.
BackwardCtxShared(c) == ctx[CHOOSE d \in 1..NumCtx : ctx[d].saved_tensors /= <<>>]

\* backward reads the attributes and saved tensors of the ctx it is given.
BackwardCtx(c) == ctx[c]

\* The arguments backward hands to cuda_lib.rasterize_backward, in call order.
BackwardCall(c, grad_out_img) ==
    LET x == BackwardCtx(c)
        img_height == x.img_height
        img_width == x.img_width
        fx == x.fx
        fy == x.fy
        channels == x.channels
        colors == x.saved_tensors[1]
        means3d == x.saved_tensors[2]
        opacities == x.saved_tensors[3]
        scales == x.saved_tensors[4]
        final_Ts == x.saved_tensors[7]
        final_idx == x.saved_tensors[8]
        gaussian_ids_sorted == x.saved_tensors[9]
        tile_bins == x.saved_tensors[10]
        xy == x.saved_tensors[11]
        conics == x.saved_tensors[12]
    IN << means3d, colors, scales, grad_out_img, img_height, img_width, fx, fy,
          channels, gaussian_ids_sorted, tile_bins, xy, conics, opacities,
          final_Ts, final_idx >>

\* The tuple backward returns, given what the native backward returned.
BackwardReturn(r) ==
    LET v_colors == r[1]
        v_opacity == SqueezeLast(r[2])
    IN << PyNone, PyNone, PyNone, PyNone, v_colors, v_opacity,
          PyNone, PyNone, PyNone, PyNone, PyNone, PyNone >>

\* ------------------------------------------------------------------ inputs
Devices == {"cpu", "cuda"}
ColorKinds == {"uint8", "int64", "float32"}

Pattern(dtype) ==
    IF dtype = "float32" THEN <<Rat(0, 1), Rat(1, 5), Rat(1, 1)>>
    ELSE <<Rat(0, 1), Rat(51, 1), Rat(255, 1)>>

\* colors[n, 3] of the given element type.
Colors(n, dtype, dev, scene) ==
    Tensor(<<n, 3>>, dtype, dev,
           [i \in 1..(3 * n) |-> Pattern(dtype)[((i - 1) % 3) + 1]], "colors", scene)

Gauss(n, width, dev, tag, scene) ==
    Tensor(<<n, width>>, "float32", dev, <<>>, tag, scene)

\* opacity[n, 1], or the one-dimensional opacity[n] of the script's own test.
Opacity(n, ndim, dev, scene) ==
    Tensor(IF ndim = 2 THEN <<n, 1>> ELSE <<n>>, "float32", dev, <<>>, "opacity", scene)

MatrixData(rows, cols, base) ==
    [i \in 1..(rows * cols) |-> Rat(base + i, 1)]

Matrix(rows, cols, dev, base) ==
    Tensor(<<rows, cols>>, "float32", dev, MatrixData(rows, cols, base), "", 0)

MatrixShapes == {<<3, 4>>, <<4, 4>>, <<4, 3>>}

ViewMatrices == {Matrix(sh[1], sh[2], dev, 100) : sh \in MatrixShapes, dev \in Devices}
ProjMatrices == {Matrix(sh[1], sh[2], dev, 200) : sh \in MatrixShapes, dev \in Devices}

\* glob_scale, img_height, img_width, fx, fy and, when passed, channels.
ScalarArgs ==
    { <<PyInt(1), PyInt(16), PyInt(32), PyFloat(8, 1), PyFloat(16, 1)>>,
      <<PyInt(2), PyInt(32), PyInt(48), PyFloat(12, 1), PyFloat(24, 1), PyInt(3)>> }

\* Where the caller keeps its Gaussians: on the GPU, as the script's test does,
\* or on the host.
DeviceOf(sc) == IF Len(sc) = 5 THEN "cuda" ELSE "cpu"

Apply(means3d, scales, rot, colors, opacity, view, proj, sc) ==
    <<means3d, scales, sc[1], rot, colors, opacity, view, proj>>
       \o SubSeq(sc, 2, Len(sc))

Inputs ==
    { Apply(Gauss(N, 3, DeviceOf(sc), "means3d", 1),
            Gauss(ns, 3, DeviceOf(sc), "scales", 1),
            Gauss(nr, 4, DeviceOf(sc), "rotations_quat", 1),
            Colors(nc, ck, DeviceOf(sc), 1),
            Opacity(no, od, DeviceOf(sc), 1), view, proj, sc) :
        N \in 1..MaxN, ns \in 1..MaxN, nr \in 1..MaxN, nc \in 1..MaxN,
        no \in 1..MaxN, ck \in ColorKinds, od \in {1, 2},
        view \in ViewMatrices, proj \in ProjMatrices, sc \in ScalarArgs }

\* The inputs of concurrent renders: one well-formed scene per Gaussian count,
\* each with its own camera, colour type and residency, and one malformed call.
SceneScalars(N) ==
    IF N % 2 = 1
    THEN <<PyInt(1), PyInt(16), PyInt(32), PyFloat(8, 1), PyFloat(16, 1)>>
    ELSE <<PyInt(2), PyInt(32), PyInt(48), PyFloat(12, 1), PyFloat(24, 1), PyInt(3)>>

Scene(N, viewShape) ==
    LET sc == SceneScalars(N)
        dev == DeviceOf(sc)
    IN Apply(Gauss(N, 3, dev, "means3d", N), Gauss(N, 3, dev, "scales", N),
             Gauss(N, 4, dev, "rotations_quat", N),
             Colors(N, IF N % 2 = 1 THEN "uint8" ELSE "float32", dev, N),
             Opacity(N, 2, dev, N),
             Matrix(viewShape[1], viewShape[2], dev, 100 * N),
             Matrix(4, 4, dev, 200 * N), sc)

PairInputs ==
    {Scene(N, <<4, 4>>) : N \in 1..MaxN} \cup {Scene(1, <<4, 3>>)}

\* The image gradients autograd may hand to backward for the image of ctx c.
Grads(c) ==
    IF fwdOut[c] = <<>> THEN {}
    ELSE { Tensor(fwdOut[c][1][2].shape, "float32", "cuda", <<>>, "grad_out_img", g) :
             g \in {1, 2} }

\* ----------------------------------------------------------------- actions
InitWrap ==
    /\ main \in BOOLEAN
    /\ args = [c \in Ctxs |-> <<>>]
    /\ ctx = [c \in Ctxs |-> FreshCtx]
    /\ coreFwd = [c \in Ctxs |-> <<>>]
    /\ coreRet = [c \in Ctxs |-> <<>>]
    /\ fwdOut = [c \in Ctxs |-> <<>>]
    /\ fwdErr = [c \in Ctxs |-> NoErr]
    /\ gradIn = [c \in Ctxs |-> <<>>]
    /\ coreBwd = [c \in Ctxs |-> <<>>]
    /\ bwdRet = [c \in Ctxs |-> <<>>]
    /\ bwdOut = [c \in Ctxs |-> <<>>]
    /\ serial = 0

\* rasterize.apply(*a) on a new ctx c, a drawn from S: the whole of forward.
Forward(c, S) ==
    /\ args[c] = <<>>
    /\ \E a \in S :
         LET r == ForwardRun(a, main, serial + 1)
         IN /\ args' = [args EXCEPT ![c] = a]
            /\ fwdErr' = [fwdErr EXCEPT ![c] = r.err]
            /\ coreFwd' = [coreFwd EXCEPT ![c] = r.core]
            /\ coreRet' = [coreRet EXCEPT ![c] = r.ret]
            /\ ctx' = [ctx EXCEPT ![c] = r.ctx]
            /\ fwdOut' = [fwdOut EXCEPT ![c] = r.out]
            /\ serial' = IF r.err = NoErr THEN serial + 1 ELSE serial
    /\ UNCHANGED <<main, gradIn, coreBwd, bwdRet, bwdOut>>

\* autograd runs backward on ctx c, whose forward returned, with some gradient.
Backward(c) ==
    /\ fwdOut[c] /= <<>>
    /\ gradIn[c] = <<>>
    /\ \E g \in Grads(c) :
         LET call == BackwardCall(c, g)
             r == rasterize_backward(call, serial + 1)
         IN /\ gradIn' = [gradIn EXCEPT ![c] = <<PyNone, g, PyNone>>]
            /\ coreBwd' = [coreBwd EXCEPT ![c] = <<call>>]
            /\ bwdRet' = [bwdRet EXCEPT ![c] = <<r>>]
            /\ bwdOut' = [bwdOut EXCEPT ![c] = <<BackwardReturn(r)>>]
            /\ serial' = serial + 1
    /\ UNCHANGED <<main, args, ctx, coreFwd, coreRet, fwdOut, fwdErr>>

\* ------------------------------------------------- the native tile binner
\* The projected Gaussians of one render, the tile grid, and the steps of the
\* binner inside cuda_lib.rasterize_forward: emit one entry per (Gaussian,
\* tile) overlap, sort the entries by (tile, depth), cut the sorted list into
\* per-tile ranges.
NumGauss == 2
TileGrid == <<2, 2>>
Depths == {1, 2}

VARIABLES
    bproj,      \* per Gaussian: culled flag, tile rectangle, depth
    bpc,        \* the binner's stage
    bemitted,   \* the Gaussians whose entries are written
    isect,      \* the overlap entries, unsorted
    sortedE,    \* the overlap entries, sorted
    tile_bins   \* per tile: <<start, end>> into the sorted entries

binVars == <<bproj, bpc, bemitted, isect, sortedE, tile_bins>>

Gaussians == 1..NumGauss
Tiles == 0..(TileGrid[1] * TileGrid[2] - 1)

ProjSet ==
    {[culled |-> TRUE, x0 |-> 0, x1 |-> 0, y0 |-> 0, y1 |-> 0, depth |-> 0]}
    \cup
    {pg \in [culled : {FALSE}, x0 : 0..(TileGrid[1] - 1), x1 : 0..(TileGrid[1] - 1),
              y0 : 0..(TileGrid[2] - 1), y1 : 0..(TileGrid[2] - 1), depth : Depths] :
        pg.x0 <= pg.x1 /\ pg.y0 <= pg.y1}

EmptyEntry == [tile |-> -1, depth |-> 0, gid |-> 0]

\* The tiles the bounding circle of a projected Gaussian meets.
TilesHit(pg) ==
    IF pg.culled \/ pg.x0 > pg.x1 \/ pg.y0 > pg.y1 THEN {}
    ELSE {y * TileGrid[1] + x : x \in (pg.x0)..(pg.x1), y \in (pg.y0)..(pg.y1)}

RECURSIVE CumTilesHit(_, _)
CumTilesHit(pr, g) ==
    IF g = 0 THEN 0 ELSE CumTilesHit(pr, g - 1) + Cardinality(TilesHit(pr[g]))

RECURSIVE SetToSortedSeq(_)
SetToSortedSeq(S) ==
    IF S = {} THEN <<>>
    ELSE LET m == CHOOSE x \in S : \A y \in S : x <= y
         IN <<m>> \o SetToSortedSeq(S \ {m})

\* Entry a sorts before entry b: tile ascending, then depth ascending.
KeyLess(a, b) == a.tile < b.tile \/ (a.tile = b.tile /\ a.depth < b.depth)

RECURSIVE InsertSorted(_, _)
InsertSorted(seq, e) ==
    IF seq = <<>> THEN <<e>>
    ELSE IF KeyLess(e, Head(seq)) THEN <<e>> \o seq
    ELSE <<Head(seq)>> \o InsertSorted(Tail(seq), e)

RECURSIVE SortEntries(_)
SortEntries(seq) ==
    IF seq = <<>> THEN <<>>
    ELSE InsertSorted(SortEntries(SubSeq(seq, 1, Len(seq) - 1)), seq[Len(seq)])

BinStart(es, t) ==
    LET firsts == {i \in 1..Len(es) : es[i].tile = t /\ (i = 1 \/ es[i - 1].tile /= t)}
    IN IF firsts = {} THEN 0 ELSE (CHOOSE i \in firsts : TRUE) - 1

\* Variant: the last entry of the list closes no range.
BinEndNoLast(es, t) ==
    LET lasts == {i \in 1..(Len(es) - 1) : es[i].tile = t /\ es[i + 1].tile /= t}
    IN IF lasts = {} THEN 0 ELSE CHOOSE i \in lasts : TRUE

BinEnd(es, t) ==
    LET lasts == {i \in 1..Len(es) :
                    es[i].tile = t /\ (i = Len(es) \/ es[i + 1].tile /= t)}
    IN IF lasts = {} THEN 0 ELSE CHOOSE i \in lasts : TRUE

InitBin ==
    /\ bproj \in [Gaussians -> ProjSet]
    /\ bpc = "emit"
    /\ bemitted = {}
    /\ isect = [i \in 1..CumTilesHit(bproj, NumGauss) |-> EmptyEntry]
    /\ sortedE = <<>>
    /\ tile_bins = [t \in Tiles |-> <<0, 0>>]

IdleBin ==
    /\ bproj = [g \in Gaussians |-> CHOOSE pg \in ProjSet : pg.culled]
    /\ bpc = "idle"
    /\ bemitted = {}
    /\ isect = <<>>
    /\ sortedE = <<>>
    /\ tile_bins = [t \in Tiles |-> <<0, 0>>]

\* Gaussian g writes its entries, one per tile it meets, at its own offset.
Emit(g) ==
    /\ bpc = "emit"
    /\ g \notin bemitted
    /\ LET ts == SetToSortedSeq(TilesHit(bproj[g]))
           off == CumTilesHit(bproj, g - 1)
       IN isect' = [i \in 1..Len(isect) |->
                      IF i > off /\ i <= off + Len(ts)
                      THEN [tile |-> ts[i - off], depth |-> bproj[g].depth, gid |-> g]
                      ELSE isect[i]]
    /\ bemitted' = bemitted \cup {g}
    /\ bpc' = IF bemitted' = Gaussians THEN "sort" ELSE "emit"
    /\ UNCHANGED <<bproj, sortedE, tile_bins>>

\* The global sort: a barrier between emitting and compositing.
SortStep ==
    /\ bpc = "sort"
    /\ sortedE' = SortEntries(isect)
    /\ bpc' = "bin"
    /\ UNCHANGED <<bproj, bemitted, isect, tile_bins>>

\* Every tile's range is read off the boundaries of the sorted list.
BinEdges ==
    /\ bpc = "bin"
    /\ tile_bins' = [t \in Tiles |-> <<BinStart(sortedE, t), BinEnd(sortedE, t)>>]
    /\ bpc' = "done"
    /\ UNCHANGED <<bproj, bemitted, isect, sortedE>>


\* ------------------------------------- the native gradient accumulation
\* The pixel workers of cuda_lib.rasterize_backward on one tile: each pixel
\* walks the tile's sorted list back from its final index and adds its
\* contribution to the colour and opacity gradient of every Gaussian it meets.
\* Contributions are exact integers: floating point rounding is not modelled.
NumPixels == 3

VARIABLES
    apc,          \* "run" while the backward kernel is running
    final_idx_px, \* per pixel: how many entries of the list forward composited
    apos,         \* per pixel: the atomic adds it has done
    v_colors,     \* per Gaussian: the colour gradient accumulator
    v_opacity     \* per Gaussian: the opacity gradient accumulator

accVars == <<apc, final_idx_px, apos, v_colors, v_opacity>>

Pixels == 1..NumPixels

\* The Gaussians pixel p meets, from its final index down to the range start.
Walk(p) == [e \in 1..final_idx_px[p] |-> final_idx_px[p] + 1 - e]

ColorContribution(p, g) == p + 2 * g
OpacityContribution(p, g) == p - 3 * g

\* Variant: the contribution is stored, not added.
AtomicStore(acc, g, v) == [acc EXCEPT ![g] = v]

\* atomicAdd(&acc[g], v): one indivisible read-modify-write.
AtomicAdd(acc, g, v) == [acc EXCEPT ![g] = @ + v]

InitAcc ==
    /\ apc = "run"
    /\ final_idx_px \in [Pixels -> 0..NumGauss]
    /\ apos = [p \in Pixels |-> 0]
    /\ v_colors = [g \in Gaussians |-> 0]
    /\ v_opacity = [g \in Gaussians |-> 0]

IdleAcc ==
    /\ apc = "idle"
    /\ final_idx_px = [p \in Pixels |-> 0]
    /\ apos = [p \in Pixels |-> 0]
    /\ v_colors = [g \in Gaussians |-> 0]
    /\ v_opacity = [g \in Gaussians |-> 0]

\* The next atomic add of pixel p: colour first, then opacity, entry by entry.
PixelStep(p) ==
    /\ apc = "run"
    /\ apos[p] < 2 * Len(Walk(p))
    /\ LET g == Walk(p)[(apos[p] \div 2) + 1]
       IN IF apos[p] % 2 = 0
          THEN /\ v_colors' = AtomicAdd(v_colors, g, ColorContribution(p, g))
               /\ UNCHANGED v_opacity
          ELSE /\ v_opacity' = AtomicAdd(v_opacity, g, OpacityContribution(p, g))
               /\ UNCHANGED v_colors
    /\ apos' = [apos EXCEPT ![p] = @ + 1]
    /\ UNCHANGED <<apc, final_idx_px>>


\* ---------------------------------------------------------- specifications
vars == <<wrapVars, binVars, accVars>>

IdleWrap ==
    /\ main = FALSE
    /\ args = [c \in Ctxs |-> <<>>]
    /\ ctx = [c \in Ctxs |-> FreshCtx]
    /\ coreFwd = [c \in Ctxs |-> <<>>]
    /\ coreRet = [c \in Ctxs |-> <<>>]
    /\ fwdOut = [c \in Ctxs |-> <<>>]
    /\ fwdErr = [c \in Ctxs |-> NoErr]
    /\ gradIn = [c \in Ctxs |-> <<>>]
    /\ coreBwd = [c \in Ctxs |-> <<>>]
    /\ bwdRet = [c \in Ctxs |-> <<>>]
    /\ bwdOut = [c \in Ctxs |-> <<>>]
    /\ serial = 0

Init == InitWrap /\ IdleBin /\ IdleAcc

\* One render on one ctx, over every input.
Next ==
    \/ Forward(1, Inputs) /\ UNCHANGED <<binVars, accVars>>
    \/ Backward(1) /\ UNCHANGED <<binVars, accVars>>

Spec == Init /\ [][Next]_vars

\* Several renders alive at once, their backward calls in any order.
NextPair ==
    \/ \E c \in Ctxs : Forward(c, PairInputs) /\ UNCHANGED <<binVars, accVars>>
    \/ \E c \in Ctxs : Backward(c) /\ UNCHANGED <<binVars, accVars>>

SpecPair == Init /\ [][NextPair]_vars

\* The tile binner of one render.
InitB == IdleWrap /\ InitBin /\ IdleAcc

NextBin ==
    \/ \E g \in Gaussians : Emit(g) /\ UNCHANGED <<wrapVars, accVars>>
    \/ SortStep /\ UNCHANGED <<wrapVars, accVars>>
    \/ BinEdges /\ UNCHANGED <<wrapVars, accVars>>

SpecBin == InitB /\ [][NextBin]_vars

\* The pixel workers of one backward pass, in any interleaving.
InitA == IdleWrap /\ IdleBin /\ InitAcc

NextAcc == \E p \in Pixels : PixelStep(p) /\ UNCHANGED <<wrapVars, binVars>>

SpecAcc == InitA /\ [][NextAcc]_vars

\* ------------------------------------------------------------------ claims
Ran(c) == args[c] /= <<>>
Called(c) == coreFwd[c] /= <<>>
BackwardRan(c) == bwdOut[c] /= <<>>

\* Nothing of the call is left behind: no native call, no ctx state, no output.
NoPartialWork(c) ==
    /\ fwdErr[c] /= NoErr
    /\ coreFwd[c] = <<>>
    /\ coreRet[c] = <<>>
    /\ ctx[c] = FreshCtx
    /\ fwdOut[c] = <<>>

LeadingMismatch(a) == \E i \in {2, 4, 5, 6} : a[i].shape[1] /= a[1].shape[1]
NotTwoDimensional(a) == \E i \in {1, 2, 4, 5, 6} : Len(a[i].shape) /= 2
BadMatrix(m) == m.shape \notin {<<3, 4>>, <<4, 4>>}
PadRaises(a) ==
    \/ a[8].shape = <<3, 4>> /\ a[8].device /= "cpu"
    \/ a[7].shape = <<3, 4>> /\ (a[8].device /= "cpu" \/ a[7].device /= "cpu")

\* C1: backward returns one gradient per input of forward, in forward's order:
\* the native d_colors for colors, the native d_opacity for opacity, None for
\* every other input.
C1_OneGradientPerInput ==
    \A c \in Ctxs : BackwardRan(c) =>
        LET g == bwdOut[c][1]
            r == bwdRet[c][1]
        IN /\ Len(g) = Len(ForwardParams)
           /\ \A i \in 1..Len(g) :
                g[i] = CASE ForwardParams[i] = "colors" -> r[1]
                         [] ForwardParams[i] = "opacity" -> r[2]
                         [] OTHER -> PyNone

\* C2: a per-Gaussian tensor whose leading dimension differs from N makes
\* forward fail with the batch-size (shape mismatch) error, with no native call,
\* nothing stored on ctx and nothing returned.
C2_ShapeMismatchError ==
    \A c \in Ctxs : (Ran(c) /\ LeadingMismatch(args[c])) =>
        /\ fwdErr[c] = Err("AssertionError", "batch_size")
        /\ NoPartialWork(c)

\* Whatever exception the batch-size check raises, the call leaves nothing behind.
MismatchLeavesNothing ==
    \A c \in Ctxs : (Ran(c) /\ LeadingMismatch(args[c])) =>
        /\ fwdErr[c].stage = "batch_size"
        /\ NoPartialWork(c)

\* C3: a per-Gaussian tensor that is not two-dimensional makes forward fail
\* before the native forward is called.
C3_TwoDimensionalEnforced ==
    \A c \in Ctxs : (Ran(c) /\ NotTwoDimensional(args[c])) =>
        fwdErr[c] /= NoErr /\ ~Called(c)

PaddedFrom(m, h) ==
    /\ h.shape = <<4, 4>>
    /\ m.shape = <<3, 4>> =>
          h.data = m.data \o <<Rat(0, 1), Rat(0, 1), Rat(0, 1), Rat(1, 1)>>
    /\ m.shape = <<4, 4>> => h.data = m.data

\* C5: every matrix the native forward receives is 4x4: a 3x4 input followed by
\* the row [0, 0, 0, 1], a 4x4 input unchanged, view and projection each on its
\* own.
C5_MatricesPadded ==
    \A c \in Ctxs : Called(c) =>
        /\ PaddedFrom(args[c][7], coreFwd[c][1][7])
        /\ PaddedFrom(args[c][8], coreFwd[c][1][8])

C5_Witness ==
    \E c \in Ctxs :
        /\ Called(c)
        /\ args[c][7].shape = <<3, 4>>
        /\ args[c][8].shape = <<4, 4>>
        /\ coreFwd[c][1][7].shape = <<4, 4>>
        /\ Len(coreFwd[c][1][7].data) = 16
        /\ coreFwd[c][1][8].data = args[c][8].data

IntegerTypes == {"uint8", "int16", "int32", "int64"}

DividedBy255(x, h) ==
    /\ h.shape = x.shape
    /\ Len(h.data) = Len(x.data)
    /\ \A i \in 1..Len(x.data) :
          h.data[i].num * x.data[i].den * 255 = x.data[i].num * h.data[i].den

\* C6 as stated: colours of any integer element type reach the native forward
\* divided by 255, floating point colours reach it unchanged.
C6_AnyIntegerNormalized ==
    \A c \in Ctxs : Called(c) =>
        LET x == args[c][5]
            h == coreFwd[c][1][5]
        IN IF x.dtype \in IntegerTypes THEN DividedBy255(x, h)
           ELSE Content(h) = Content(x)

\* C6 (amended): uint8 colours reach the native forward as float32 values
\* divided by 255; colours of any other element type, integer or floating
\* point, reach it with type and values unchanged.
C6_Uint8Normalized ==
    \A c \in Ctxs : Called(c) =>
        LET x == args[c][5]
            h == coreFwd[c][1][5]
        IN IF x.dtype = "uint8" THEN DividedBy255(x, h) /\ h.dtype = "float32"
           ELSE Content(h) = Content(x)

C6_Witness ==
    \E c \in Ctxs :
        /\ Called(c)
        /\ args[c][5].dtype = "uint8"
        /\ args[c][5].data[2] = Rat(51, 1)
        /\ coreFwd[c][1][5].data[2] = Rat(1, 5)

\* C7: for an opacity[N, 1] input the opacity gradient backward returns has
\* shape [N, 1], and the colour gradient has the shape of colors.
C7_GradientShapes ==
    \A c \in Ctxs :
        (BackwardRan(c) /\ args[c][6].shape = <<args[c][1].shape[1], 1>>) =>
            /\ bwdOut[c][1][6].shape = args[c][6].shape
            /\ bwdOut[c][1][5].shape = args[c][5].shape

GivenChannels(a) == IF Len(a) >= 13 THEN a[13] ELSE PyInt(3)

\* C10: backward on a ctx hands the native backward the state of its own
\* forward, each piece in the position the engine interface gives it: the
\* tensors that forward's native call returned, the sizes and focal lengths
\* that forward was given, and the Gaussian tensors that forward handed on.
C10_OwnSavedState ==
    \A c \in Ctxs : coreBwd[c] /= <<>> =>
        LET b == coreBwd[c][1]
            f == coreFwd[c][1]
            r == coreRet[c][1]
            a == args[c]
        IN /\ Len(b) = 16
           /\ Content(b[1]) = Content(f[1])
           /\ Content(b[2]) = Content(f[5])
           /\ Content(b[3]) = Content(f[2])
           /\ b[4] = gradIn[c][2]
           /\ b[5] = a[9]
           /\ b[6] = a[10]
           /\ b[7] = a[11]
           /\ b[8] = a[12]
           /\ b[9] = GivenChannels(a)
           /\ b[10] = r[6]
           /\ b[11] = r[7]
           /\ b[12] = r[8]
           /\ b[13] = r[9]
           /\ Content(b[14]) = Content(f[6])
           /\ b[15] = r[4]
           /\ b[16] = r[5]

\* Two renders of different scenes are alive and the later one's backward has
\* run first.
C10_Witness ==
    \E c, d \in Ctxs :
        /\ Called(c) /\ Called(d)
        /\ coreRet[c][1][2].id < coreRet[d][1][2].id
        /\ args[c][1] /= args[d][1]
        /\ args[d][5].dtype = "uint8"
        /\ coreBwd[d] /= <<>>
        /\ coreBwd[c] = <<>>

RangeLen(t) == tile_bins[t][2] - tile_bins[t][1]

RECURSIVE SumRangeLens(_)
SumRangeLens(t) == IF t < 0 THEN 0 ELSE SumRangeLens(t - 1) + RangeLen(t)

\* The tiles whose range holds position i (0-based) of the sorted list.
TilesHolding(i) == {t \in Tiles : tile_bins[t][1] <= i /\ i < tile_bins[t][2]}

\* C8: once binning is done, tile_bins partitions the sorted overlap list:
\* end >= start for every tile, the ranges of distinct tiles do not overlap and
\* follow one another in tile order without gaps, every (Gaussian, tile)
\* overlap is one entry of the list and lies in the range of its own tile and
\* of no other, and the range lengths add up to num_rendered.
C8_TileBinsPartition ==
    bpc = "done" =>
        LET n == CumTilesHit(bproj, NumGauss)
        IN /\ Len(sortedE) = n
           /\ \A t \in Tiles : tile_bins[t][2] >= tile_bins[t][1]
           /\ \A i \in 0..(n - 1) : TilesHolding(i) = {sortedE[i + 1].tile}
           /\ \A t, u \in Tiles :
                (t < u /\ RangeLen(t) > 0 /\ RangeLen(u) > 0) =>
                    tile_bins[t][2] <= tile_bins[u][1]
           /\ \A g \in Gaussians : \A t \in TilesHit(bproj[g]) :
                Cardinality({i \in 1..n : sortedE[i].gid = g /\ sortedE[i].tile = t}) = 1
           /\ \A i \in 1..n : sortedE[i].tile \in TilesHit(bproj[sortedE[i].gid])
           /\ SumRangeLens(TileGrid[1] * TileGrid[2] - 1) = n

\* Binning is done, one Gaussian meets several tiles, one tile holds two
\* Gaussians, and one tile is empty.
C8_Witness ==
    /\ bpc = "done"
    /\ \E g \in Gaussians : Cardinality(TilesHit(bproj[g])) > 1
    /\ \E t \in Tiles : RangeLen(t) = 2
    /\ \E t \in Tiles : RangeLen(t) = 0
    /\ \E t \in Tiles : tile_bins[t][1] > 0

\* Pixel p has added its colour (opacity) contribution for Gaussian g.
ColorAdded(p, g) == g <= final_idx_px[p] /\ apos[p] >= 2 * (final_idx_px[p] - g) + 1
OpacityAdded(p, g) == g <= final_idx_px[p] /\ apos[p] >= 2 * (final_idx_px[p] - g) + 2

RECURSIVE ColorSum(_, _)
ColorSum(g, p) ==
    IF p = 0 THEN 0
    ELSE ColorSum(g, p - 1) + (IF ColorAdded(p, g) THEN ColorContribution(p, g) ELSE 0)

RECURSIVE OpacitySum(_, _)
OpacitySum(g, p) ==
    IF p = 0 THEN 0
    ELSE OpacitySum(g, p - 1)
            + (IF OpacityAdded(p, g) THEN OpacityContribution(p, g) ELSE 0)

\* C9: under every interleaving of the pixel workers, each Gaussian's colour
\* and opacity accumulator holds the sum of the contributions added so far, each
\* once; when all workers are done that is the sum over every pixel that met
\* the Gaussian.
C9_NoLostContribution ==
    apc = "run" =>
        \A g \in Gaussians :
            /\ v_colors[g] = ColorSum(g, NumPixels)
            /\ v_opacity[g] = OpacitySum(g, NumPixels)

\* Two workers are interleaved on one Gaussian: one is between its colour and
\* its opacity add for it, the other has added both.
C9_Witness ==
    /\ apc = "run"
    /\ \E p, q \in Pixels : \E g \in Gaussians :
          /\ p /= q
          /\ ColorAdded(p, g) /\ ~OpacityAdded(p, g)
          /\ ColorAdded(q, g) /\ OpacityAdded(q, g)
          /\ v_colors[g] >= ColorContribution(p, g) + ColorContribution(q, g)

====
